---- MODULE Spec2Model ----
(***************************************************************************)
(* The signalling server of Linguera (server.js): the room store, the      *)
(* socket.io event handlers (createRoom, join, offer/answer/ice-candidate, *)
(* transcript, leave, get-active-meetings, disconnecting/disconnect), the  *)
(* transcript buffers, the POST /api/translate handler with its health     *)
(* gate, the dictionary routes with applyWordReplacements, the agents      *)
(* online count, performCleanup and gracefulShutdown; and of the browser   *)
(* client the state of app.js with the handlers of sockets.js.             *)
(***************************************************************************)
EXTENDS Integers, Sequences, FiniteSets, TLC

\* ------------------------------------------------------------------ bounds
MaxSockets == 3
MaxRooms == 1
MaxBuffer == 1
MaxRequests == 2
MaxWords == 2
MaxTicks == 3
MaxSpeakers == 2

\* config.maxRoomParticipants (parseInt(env) || 2)
maxRoomParticipants == 2

\* config.maxTranslationLength (parseInt(env) || 5000)
maxTranslationLength == 5000

\* config.transcriptRetentionHours
transcriptRetentionHours == 24

\* the hours the clock advances in one step
TickHours == 12

SocketNames == <<"s1", "s2", "s3", "s4", "s5">>
RoomNames == <<"r1", "r2", "r3", "r4">>

\* socket ids (server generated) and the room ids clients name
Sockets == {SocketNames[i] : i \in 1..MaxSockets}
RoomIds == {RoomNames[i] : i \in 1..MaxRooms}

\* a room id argument that fails `!roomId || typeof roomId !== 'string'`
InvalidRoomId == ""
RoomArgs == RoomIds \cup {InvalidRoomId}

\* JavaScript undefined (an absent argument or field)
Undefined == "undefined"

Payloads == {"sdp1", "sdp2"}
SignalNames == {"offer", "answer", "ice-candidate"}
Langs == {"hi-IN"}

VARIABLES
  connected,     \* io.sockets.sockets: the ids of the live connections
  socketRooms,   \* socket.rooms of each connection, without its own id, in insertion order
  rooms,         \* the Map rooms: roomId -> {participants, isPublic, lang}
  transcripts,   \* the Map transcripts: roomId -> array of messages
  ev,            \* the event the server handled last
  out,           \* what the handler of ev emitted, in order: event, payload, receivers
  saved,         \* the transcript files the handler of ev wrote (fs.writeFileSync)
  scenario,      \* progress of the create/join/offer/disconnect run of two connections
  pythonServiceHealthy,  \* the health flag of the translation backend
  excludedWords, \* the dictionary table
  requests,      \* the POST /api/translate requests: where each stands, what it did
  logWrites,     \* the log files the last step of a request wrote (logTranslation)
  excludedWordsFile,  \* the table in excludedWords.json (empty when there is no file)
  dictAnswer,    \* the dictionary request handled last and its HTTP status
  applied,       \* the applyWordReplacements call made last: table, text, language, result
  agentAvailability,  \* the object agentAvailability: email -> flag
  declared,      \* the availability each live connection declared last
  now,           \* the clock (Date.now()), in hours
  phase,         \* "running", "closing" after a shutdown signal, "exited"
  backend,       \* the Python service: "up" (answers, model loaded) or "down"
  clients,       \* the browser clients: the state of app.js and of its socket handlers
  sent           \* what the client step taken last sent to the server

roomVars == <<connected, socketRooms, rooms, transcripts, ev, out, saved, scenario>>
translateVars == <<pythonServiceHealthy, excludedWords, requests, logWrites>>
dictVars == <<excludedWordsFile, dictAnswer, applied>>
agentVars == <<agentAvailability, declared>>
timeVars == <<now, phase, backend>>
clientVars == <<clients, sent>>
lifeVars == <<agentVars, timeVars, clientVars>>
vars == <<roomVars, translateVars, dictVars, lifeVars>>

\* ------------------------------------------------------------------ maps
EmptyMap == [k \in {} |-> k]
MapDelete(m, k) == [x \in (DOMAIN m) \ {k} |-> m[x]]
MapSet(m, k, v) == [x \in (DOMAIN m) \cup {k} |-> IF x = k THEN v ELSE m[x]]

\* ------------------------------------------------------------------ socket.io emits
\* the sockets in the adapter room `name`: a socket's own id names the room
\* holding only that socket; a room id names the sockets that joined it
RoomMembers(conn, sr, name) ==
  {s \in conn : s = name \/ (\E i \in 1..Len(sr[s]) : sr[s][i] = name)}

\* socket.emit(event, payload)
SocketEmit(s, event, payload) ==
  [event |-> event, payload |-> payload, to |-> {s}]
\* io.to(name).emit(event, payload)
IoToEmit(conn, sr, name, event, payload) ==
  [event |-> event, payload |-> payload, to |-> RoomMembers(conn, sr, name)]
\* socket.to(name).emit(event, payload)
SocketToEmit(conn, sr, s, name, event, payload) ==
  [event |-> event, payload |-> payload, to |-> RoomMembers(conn, sr, name) \ {s}]
\* io.emit(event, payload)
IoEmit(conn, event, payload) ==
  [event |-> event, payload |-> payload, to |-> conn]

\* SocketJoin that never adds the room to socket.rooms
SocketJoinNever(sr, s, roomId) == sr

\* socket.join(roomId): socket.rooms is a Set, adding twice keeps the first place
SocketJoin(sr, s, roomId) ==
  IF \E i \in 1..Len(sr[s]) : sr[s][i] = roomId
    THEN sr
    ELSE [sr EXCEPT ![s] = Append(@, roomId)]

\* ------------------------------------------------------------------ helpers of server.js
\* ListedRoom listing only the rooms that hold a pair
ListedRoomPairsOnly(room) == room.isPublic /\ Len(room.participants) > 1

\* the filter/map of emitActiveMeetings and of get-active-meetings
ListedRoom(room) == room.isPublic /\ Len(room.participants) > 0

\* ActiveMeetings listing every room of the store
ActiveMeetingsAllRooms(rs) ==
  {[roomId |-> r, participants |-> Len(rs[r].participants)] : r \in DOMAIN rs}

\* Array.from(rooms.entries()).filter(...).map(...)
ActiveMeetings(rs) ==
  {[roomId |-> r, participants |-> Len(rs[r].participants)] :
     r \in {x \in DOMAIN rs : ListedRoom(rs[x])}}

emitActiveMeetings(conn, rs) == IoEmit(conn, "active-meetings", ActiveMeetings(rs))

\* the loop `for (const email in agentAvailability) if (agentAvailability[email]) availableCount++`
AvailableCount(av) == Cardinality({email \in DOMAIN av : av[email]})

emitAgentsOnline(conn, av) == IoEmit(conn, "agents-online", AvailableCount(av))

\* ------------------------------------------------------------------ timestamps
\* A timestamp is no value, the string of `new Date().toISOString()` or the
\* number of Date.now(); t is the hour it was taken.
NoStamp == [kind |-> "undefined", t |-> 0]
IsoString(t) == [kind |-> "iso", t |-> t]
Millis(t) == [kind |-> "ms", t |-> t]

\* `msg.timestamp || Date.now()`
Stamp(timestamp, t) == IF timestamp = NoStamp THEN Millis(t) ELSE timestamp

\* `timestamp < cutoffTime` with a number on the right: an ISO string on the
\* left converts to NaN, and every comparison with NaN is false
LessThanNumber(timestamp, n) == timestamp.kind = "ms" /\ timestamp.t < n

\* one line of the transcript file written by saveTranscript
TranscriptLine(m) ==
  [time |-> m.timestamp, translated |-> (m.type = "translation"),
   sender |-> m.sender, transcript |-> m.transcript]

\* saveTranscript returning early for a log of one message too
saveTranscriptSkipsShort(ts, roomId) ==
  LET log == IF roomId \in DOMAIN ts THEN ts[roomId] ELSE <<>>
  IN IF Len(log) <= 1
       THEN <<>>
       ELSE <<[roomId |-> roomId,
               content |-> [i \in 1..Len(log) |-> TranscriptLine(log[i])]]>>

\* saveTranscript(roomId): the files it writes (none for an empty or absent log)
saveTranscript(ts, roomId) ==
  LET log == IF roomId \in DOMAIN ts THEN ts[roomId] ELSE <<>>
  IN IF Len(log) = 0
       THEN <<>>
       ELSE <<[roomId |-> roomId,
               content |-> [i \in 1..Len(log) |-> TranscriptLine(log[i])]]>>

\* FindOther taking the first participant, whoever it is
FindFirst(participants, senderId) ==
  IF Len(participants) = 0 THEN Undefined ELSE participants[1]

\* room.participants.find(id => id !== senderId), Undefined when there is none
FindOther(participants, senderId) ==
  LET idx == {i \in 1..Len(participants) : participants[i] # senderId}
  IN IF idx = {} THEN Undefined
     ELSE participants[CHOOSE i \in idx : \A j \in idx : i <= j]

\* forwardToOther falling back to the whole adapter room when it finds no peer
forwardToOtherOrRoom(conn, sr, rs, roomId, senderId, event, payload) ==
  IF roomId \in DOMAIN rs /\ FindOther(rs[roomId].participants, senderId) # Undefined
    THEN <<IoToEmit(conn, sr, FindOther(rs[roomId].participants, senderId),
                    event, payload)>>
    ELSE <<SocketToEmit(conn, sr, senderId, roomId, event, payload)>>

\* forwardToOther(roomId, senderId, event, payload): the emits it makes
forwardToOther(conn, sr, rs, roomId, senderId, event, payload) ==
  IF roomId \notin DOMAIN rs
    THEN <<>>
    ELSE LET other == FindOther(rs[roomId].participants, senderId)
         IN IF other = Undefined
              THEN <<>>
              ELSE <<IoToEmit(conn, sr, other, event, payload)>>

\* WithoutSocket dropping every participant
WithoutSocketAll(participants, s) == <<>>

\* room.participants.filter(id => id !== socket.id)
WithoutSocket(participants, s) == SelectSeq(participants, LAMBDA id : id # s)

\* handleLeave(socket, roomId) applied to st = [rooms, transcripts, out, saved]
handleLeave(conn, sr, st, s, roomId) ==
  IF roomId \notin DOMAIN st.rooms
    THEN st
    ELSE LET left == WithoutSocket(st.rooms[roomId].participants, s)
             emitted == Append(st.out,
                          SocketToEmit(conn, sr, s, roomId, "user-disconnected", Undefined))
         IN IF Len(left) = 0
              THEN [rooms |-> MapDelete(st.rooms, roomId),
                    transcripts |-> MapDelete(st.transcripts, roomId),
                    out |-> emitted,
                    saved |-> st.saved \o saveTranscript(st.transcripts, roomId)]
              ELSE [rooms |-> [st.rooms EXCEPT ![roomId].participants = left],
                    transcripts |-> st.transcripts,
                    out |-> emitted,
                    saved |-> st.saved]

\* socket.rooms.forEach(roomId => handleLeave(socket, roomId)) of 'disconnecting'
RECURSIVE LeaveAll(_, _, _, _, _)
LeaveAll(conn, sr, st, s, joined) ==
  IF joined = <<>>
    THEN st
    ELSE LeaveAll(conn, sr, handleLeave(conn, sr, st, s, Head(joined)), s, Tail(joined))

Store == [rooms |-> rooms, transcripts |-> transcripts, out |-> <<>>, saved |-> <<>>]

\* `!roomId || typeof roomId !== 'string'` is false
ValidRoomId(roomId) == roomId # InvalidRoomId

\* a JavaScript value used as a condition
Truthy(v) == v = "true"

\* the creator test of join taking an absent isCreator for a creator
CreatorIntentLax(opts) == opts.isCreator # "false"

\* `opts.isCreator`
CreatorIntent(opts) == Truthy(opts.isCreator)

\* RoomIsFull comparing with > instead of >=
RoomIsFullOffByOne(room) == Len(room.participants) > maxRoomParticipants

\* `(room.participants || []).length >= config.maxRoomParticipants`
RoomIsFull(room) == Len(room.participants) >= maxRoomParticipants

\* `opts.isPublic !== false`
IsPublicOpt(opts) == opts.isPublic # "false"

\* ImplicitRoom leaving the creator out of the participant list
ImplicitRoomEmpty(s, opts) ==
  [participants |-> <<>>, isPublic |-> IsPublicOpt(opts), lang |-> Undefined]

\* the room a creator's join of an absent room id puts into the store
ImplicitRoom(s, opts) ==
  [participants |-> <<s>>, isPublic |-> IsPublicOpt(opts), lang |-> Undefined]

\* JoinNotices sending 'user-joined' to the whole room instead of participants[0]
JoinNoticesToRoom(conn, sr, s, roomId, participants) ==
  IF Len(participants) = 1
    THEN <<SocketEmit(s, "created", roomId)>>
    ELSE IF Len(participants) = 2
      THEN <<SocketEmit(s, "joined", roomId),
             IoToEmit(conn, sr, roomId, "user-joined", Undefined)>>
      ELSE <<>>

\* the emits of join after room.participants.push(socket.id)
JoinNotices(conn, sr, s, roomId, participants) ==
  IF Len(participants) = 1
    THEN <<SocketEmit(s, "created", roomId)>>
    ELSE IF Len(participants) = 2
      THEN <<SocketEmit(s, "joined", roomId),
             IoToEmit(conn, sr, participants[1], "user-joined", Undefined)>>
      ELSE <<>>

\* socket.on('join'): the store, socket.rooms and emits it leaves
JoinHandler(conn, sr, rs, s, roomId, opts) ==
  IF ~ValidRoomId(roomId)
    THEN [rooms |-> rs, socketRooms |-> sr,
          out |-> <<SocketEmit(s, "error", "Invalid roomId")>>]
  ELSE IF roomId \notin DOMAIN rs
    THEN IF CreatorIntent(opts)
           THEN [rooms |-> MapSet(rs, roomId, ImplicitRoom(s, opts)),
                 socketRooms |-> SocketJoin(sr, s, roomId),
                 out |-> <<SocketEmit(s, "created", roomId)>>]
           ELSE [rooms |-> rs, socketRooms |-> sr,
                 out |-> <<SocketEmit(s, "no-room", roomId)>>]
  ELSE IF RoomIsFull(rs[roomId])
    THEN [rooms |-> rs, socketRooms |-> sr,
          out |-> <<SocketEmit(s, "full", roomId)>>]
  ELSE LET sr2 == SocketJoin(sr, s, roomId)
           rs2 == [rs EXCEPT ![roomId].participants = Append(@, s)]
       IN [rooms |-> rs2, socketRooms |-> sr2,
           out |-> JoinNotices(conn, sr2, s, roomId, rs2[roomId].participants)
                     \o <<emitActiveMeetings(conn, rs2)>>]

\* socket.on('leave'): handleLeave, the second delete, the broadcast
LeaveHandler(conn, sr, st, s, roomId) ==
  LET st1 == handleLeave(conn, sr, st, s, roomId)
      gone == \/ roomId \notin DOMAIN st1.rooms
              \/ Len(st1.rooms[roomId].participants) = 0
      rs2 == IF gone THEN MapDelete(st1.rooms, roomId) ELSE st1.rooms
      ts2 == IF gone THEN MapDelete(st1.transcripts, roomId) ELSE st1.transcripts
  IN [rooms |-> rs2, transcripts |-> ts2,
      out |-> Append(st1.out, emitActiveMeetings(conn, rs2)),
      saved |-> st1.saved]

\* ------------------------------------------------------------------ the run of section 8
NoScenario == [stage |-> 0, a |-> "", b |-> "", roomId |-> "", isPublic |-> FALSE]

\* the stage of the run "A creates, B joins, A offers, B disconnects" after event e
ScenarioStep(sc, e, before, after) ==
  IF sc.stage = 1 /\ e.name = "join" /\ e.roomId = sc.roomId /\ e.socket # sc.a
    THEN [sc EXCEPT !.stage = 2, !.b = e.socket]
  ELSE IF sc.stage = 2 /\ e.name = "offer" /\ e.roomId = sc.roomId /\ e.socket = sc.a
    THEN [sc EXCEPT !.stage = 3]
  ELSE IF sc.stage = 3 /\ e.name = "disconnect" /\ e.socket = sc.b
    THEN [sc EXCEPT !.stage = 4]
  ELSE IF /\ e.name = "join" /\ Truthy(e.creator) /\ ValidRoomId(e.roomId)
          /\ e.roomId \notin DOMAIN before
    THEN [stage |-> 1, a |-> e.socket, b |-> "", roomId |-> e.roomId,
          isPublic |-> after[e.roomId].isPublic]
  ELSE NoScenario

Event(name, s, roomId, creator, payload) ==
  [name |-> name, socket |-> s, roomId |-> roomId, creator |-> creator, payload |-> payload]

\* ------------------------------------------------------------------ state machine
InitRooms ==
  /\ connected = {}
  /\ socketRooms = [s \in Sockets |-> <<>>]
  /\ rooms = EmptyMap
  /\ transcripts = EmptyMap
  /\ ev = Event("start", "", "", Undefined, Undefined)
  /\ out = <<>>
  /\ saved = <<>>
  /\ scenario = NoScenario

\* the observation of a handled event: ev, and the scenario stage it leads to
Handled(e) ==
  /\ ev' = e
  /\ scenario' = ScenarioStep(scenario, e, rooms, rooms')
  /\ phase # "exited"
  /\ UNCHANGED <<translateVars, dictVars, timeVars, clientVars>>

\* io.on('connection'): a new socket, with an id no live socket has; none is
\* accepted once server.close() was called
Connect(s) ==
  /\ s \notin connected
  /\ phase = "running"
  /\ connected' = connected \cup {s}
  /\ socketRooms' = [socketRooms EXCEPT ![s] = <<>>]
  /\ out' = <<>>
  /\ saved' = <<>>
  /\ UNCHANGED <<rooms, transcripts>>
  /\ UNCHANGED agentVars
  /\ Handled(Event("connection", s, "", Undefined, Undefined))

\* NewRoom registering the room as private
NewRoomPrivate(lang) == [participants |-> <<>>, isPublic |-> FALSE, lang |-> lang]

\* the room createRoom puts into the store
NewRoom(lang) == [participants |-> <<>>, isPublic |-> TRUE, lang |-> lang]

\* socket.on('createRoom', (roomId, lang))
CreateRoom(s, roomId, lang) ==
  /\ s \in connected
  /\ IF ~ValidRoomId(roomId)
       THEN /\ out' = <<SocketEmit(s, "createRoomResult",
                           [success |-> FALSE, error |-> "Invalid roomId"])>>
            /\ rooms' = rooms
       ELSE IF roomId \in DOMAIN rooms
         THEN /\ out' = <<SocketEmit(s, "createRoomResult",
                             [success |-> FALSE, error |-> "Room already exists"])>>
              /\ rooms' = rooms
         ELSE /\ rooms' = MapSet(rooms, roomId, NewRoom(lang))
              /\ out' = <<SocketEmit(s, "createRoomResult",
                             [success |-> TRUE, roomId |-> roomId])>>
  /\ saved' = <<>>
  /\ UNCHANGED <<connected, socketRooms, transcripts>>
  /\ UNCHANGED agentVars
  /\ Handled(Event("createRoom", s, roomId, Undefined, lang))

\* socket.on('join', (roomId, opts))
Join(s, roomId, opts) ==
  /\ s \in connected
  /\ LET r == JoinHandler(connected, socketRooms, rooms, s, roomId, opts)
     IN /\ rooms' = r.rooms
        /\ socketRooms' = r.socketRooms
        /\ out' = r.out
  /\ saved' = <<>>
  /\ UNCHANGED <<connected, transcripts>>
  /\ UNCHANGED agentVars
  /\ Handled(Event("join", s, roomId, opts.isCreator, Undefined))

\* socket.on('offer' | 'answer' | 'ice-candidate', (payload, roomId))
Signal(s, name, payload, roomId) ==
  /\ s \in connected
  /\ out' = forwardToOther(connected, socketRooms, rooms, roomId, s, name, payload)
  /\ saved' = <<>>
  /\ UNCHANGED <<connected, socketRooms, rooms, transcripts>>
  /\ UNCHANGED agentVars
  /\ Handled(Event(name, s, roomId, Undefined, payload))

\* socket.on('leave', (roomId))
Leave(s, roomId) ==
  /\ s \in connected
  /\ LET r == LeaveHandler(connected, socketRooms, Store, s, roomId)
     IN /\ rooms' = r.rooms
        /\ transcripts' = r.transcripts
        /\ out' = r.out
        /\ saved' = r.saved
  /\ UNCHANGED <<connected, socketRooms>>
  /\ UNCHANGED agentVars
  /\ Handled(Event("leave", s, roomId, Undefined, Undefined))

\* socket.on('disconnecting') and then socket.on('disconnect')
Disconnect(s) ==
  /\ s \in connected
  /\ LET r == LeaveAll(connected, socketRooms, Store, s, socketRooms[s])
     IN /\ rooms' = r.rooms
        /\ transcripts' = r.transcripts
        /\ saved' = r.saved
        /\ out' = r.out \o <<emitActiveMeetings(connected \ {s}, r.rooms),
                               emitAgentsOnline(connected \ {s}, agentAvailability)>>
  /\ connected' = connected \ {s}
  /\ socketRooms' = [socketRooms EXCEPT ![s] = <<>>]
  /\ declared' = [declared EXCEPT ![s] = FALSE]
  /\ UNCHANGED agentAvailability
  /\ Handled(Event("disconnect", s, "", Undefined, Undefined))

\* what the client of speech.js puts into a transcript message: the timestamp
\* is `new Date().toISOString()`
Messages ==
  [roomId : RoomArgs, sender : {"Agent"}, transcript : {"hello"},
   type : {Undefined, "translation"}, timestamp : {IsoString(now)}]

\* the same and the messages of a client that sends no timestamp
AllMessages ==
  [roomId : RoomArgs, sender : {"Agent"}, transcript : {"hello"},
   type : {Undefined, "translation"}, timestamp : {IsoString(now), NoStamp}]

\* IsSpoken taking every message for a spoken one
IsSpokenAlways(msg) == TRUE

\* `!msg.type || msg.type !== 'translation'`
IsSpoken(msg) == msg.type # "translation"

\* socket.on('transcript', (msg))
Transcript(s, msg) ==
  /\ s \in connected
  /\ IF ~ValidRoomId(msg.roomId)
       THEN /\ out' = <<>>
            /\ transcripts' = transcripts
       ELSE LET log == IF msg.roomId \in DOMAIN transcripts
                         THEN transcripts[msg.roomId] ELSE <<>>
            IN /\ Len(log) < MaxBuffer
               /\ transcripts' = MapSet(transcripts, msg.roomId,
                    Append(log, [msg EXCEPT !.timestamp = Stamp(msg.timestamp, now)]))
               /\ out' = IF IsSpoken(msg)
                           THEN forwardToOther(connected, socketRooms, rooms,
                                               msg.roomId, s, "transcript", msg)
                           ELSE <<>>
  /\ saved' = <<>>
  /\ UNCHANGED <<connected, socketRooms, rooms>>
  /\ UNCHANGED agentVars
  /\ Handled(Event("transcript", s, msg.roomId, Undefined, msg.type))

\* socket.on('get-active-meetings')
GetActiveMeetings(s) ==
  /\ s \in connected
  /\ out' = <<SocketEmit(s, "active-meetings", ActiveMeetings(rooms))>>
  /\ saved' = <<>>
  /\ UNCHANGED <<connected, socketRooms, rooms, transcripts>>
  /\ UNCHANGED agentVars
  /\ Handled(Event("get-active-meetings", s, "", Undefined, Undefined))

JoinOpts == [isCreator : {"true", "false", Undefined}, isPublic : {"true", "false", Undefined}]

Next ==
  \/ \E s \in Sockets : Connect(s)
  \/ \E s \in Sockets : Disconnect(s)
  \/ \E s \in Sockets, r \in RoomArgs, l \in Langs : CreateRoom(s, r, l)
  \/ \E s \in Sockets, r \in RoomArgs, o \in JoinOpts : Join(s, r, o)
  \/ \E s \in Sockets, r \in RoomArgs : Leave(s, r)
  \/ \E s \in Sockets, n \in SignalNames, p \in Payloads, r \in RoomArgs : Signal(s, n, p, r)
  \/ \E s \in Sockets, m \in Messages : Transcript(s, m)
  \/ \E s \in Sockets : GetActiveMeetings(s)

\* ------------------------------------------------------------------ agents online
\* the email the user of connection s is logged in with
EmailOf(s) ==
  <<"u1@employee.com", "u2@employee.com", "u3@employee.com", "u4@employee.com",
    "u5@employee.com">>[CHOOSE i \in 1..Len(SocketNames) : SocketNames[i] = s]

\* the data of agent-availability-changed
AvailabilityData(s) ==
  [email : {Undefined, EmailOf(s)}, available : {"true", "false", Undefined}]

\* socket.on('agent-availability-changed', (data))
AvailabilityChanged(s, data) ==
  /\ s \in connected
  /\ IF data.email # Undefined
       THEN /\ agentAvailability' = MapSet(agentAvailability, data.email, Truthy(data.available))
            /\ declared' = [declared EXCEPT ![s] = Truthy(data.available)]
            /\ out' = <<emitAgentsOnline(connected, agentAvailability')>>
       ELSE /\ UNCHANGED agentVars
            /\ out' = <<>>
  /\ saved' = <<>>
  /\ UNCHANGED <<connected, socketRooms, rooms, transcripts>>
  /\ Handled(Event("agent-availability-changed", s, "", Undefined, data.available))

\* socket.on('get-agents-online')
GetAgentsOnline(s) ==
  /\ s \in connected
  /\ out' = <<SocketEmit(s, "agents-online", AvailableCount(agentAvailability))>>
  /\ saved' = <<>>
  /\ UNCHANGED <<connected, socketRooms, rooms, transcripts, agentVars>>
  /\ Handled(Event("get-agents-online", s, "", Undefined, Undefined))

\* the setTimeout(..., 500) of io.on('connection') fires
AgentsOnlineTimer(s) ==
  /\ s \in connected
  /\ out' = <<SocketEmit(s, "agents-online", AvailableCount(agentAvailability))>>
  /\ saved' = <<>>
  /\ UNCHANGED <<connected, socketRooms, rooms, transcripts, agentVars>>
  /\ Handled(Event("connection-timer", s, "", Undefined, Undefined))

\* ------------------------------------------------------------------ cleanup and shutdown
\* `socket.handshake?.auth?.email || socket.data?.email`: the client connects
\* with io() and no auth, and the server never sets socket.data
HandshakeEmail(s) == Undefined

\* the emails performCleanup finds on the live sockets
ConnectedEmails(conn) == {HandshakeEmail(s) : s \in conn} \ {Undefined}

\* Date.now() - config.transcriptRetentionHours * 60 * 60 * 1000, the clock counting hours
CutoffTime(t) == t - transcriptRetentionHours

\* the buffers the sweep of performCleanup takes
SweptRooms(ts, t) ==
  {r \in DOMAIN ts :
     Len(ts[r]) > 0 /\ LessThanNumber(ts[r][1].timestamp, CutoffTime(t))}

RECURSIVE KeysOf(_)
\* the keys of a Map, one after the other
KeysOf(keys) ==
  IF keys = {} THEN <<>>
  ELSE LET k == CHOOSE x \in keys : TRUE IN <<k>> \o KeysOf(keys \ {k})

RECURSIVE SaveEach(_, _)
\* saveTranscript called for each of roomIds: the files written
SaveEach(ts, roomIds) ==
  IF roomIds = <<>> THEN <<>>
  ELSE saveTranscript(ts, Head(roomIds)) \o SaveEach(ts, Tail(roomIds))

\* performCleanup(), every config.cleanupInterval
PerformCleanup ==
  /\ agentAvailability' =
       [email \in DOMAIN agentAvailability \cap ConnectedEmails(connected) |->
          agentAvailability[email]]
  /\ LET swept == SweptRooms(transcripts, now)
     IN /\ saved' = SaveEach(transcripts, KeysOf(swept))
        /\ transcripts' = [r \in DOMAIN transcripts \ swept |-> transcripts[r]]
  /\ out' = <<>>
  /\ UNCHANGED <<connected, socketRooms, rooms, declared>>
  /\ Handled(Event("cleanup", "", "", Undefined, Undefined))

\* gracefulShutdown(signal) up to server.close(): SIGTERM or SIGINT; it saves
\* the transcripts of Array.from(rooms.keys())
Shutdown ==
  /\ phase \in {"running", "closing"}
  /\ saved' = SaveEach(transcripts, KeysOf(DOMAIN rooms))
  /\ phase' = "closing"
  /\ out' = <<>>
  /\ ev' = Event("shutdown", "", "", Undefined, Undefined)
  /\ scenario' = NoScenario
  /\ UNCHANGED <<connected, socketRooms, rooms, transcripts, now, backend>>
  /\ UNCHANGED <<translateVars, dictVars, agentVars, clientVars>>

\* process.exit: the callback of server.close, or the 10 s timer
Exit ==
  /\ phase = "closing"
  /\ phase' = "exited"
  /\ out' = <<>>
  /\ saved' = <<>>
  /\ ev' = Event("exit", "", "", Undefined, Undefined)
  /\ scenario' = NoScenario
  /\ UNCHANGED <<connected, socketRooms, rooms, transcripts, now, backend>>
  /\ UNCHANGED <<translateVars, dictVars, agentVars, clientVars>>

\* time passes
Tick ==
  /\ phase # "exited"
  /\ now < MaxTicks * TickHours
  /\ now' = now + TickHours
  /\ out' = <<>>
  /\ saved' = <<>>
  /\ ev' = Event("tick", "", "", Undefined, Undefined)
  /\ scenario' = NoScenario
  /\ UNCHANGED <<connected, socketRooms, rooms, transcripts, phase, backend>>
  /\ UNCHANGED <<translateVars, dictVars, agentVars, clientVars>>

\* the connections that take part in the conversations
Speakers == {SocketNames[i] : i \in 1..MaxSpeakers}

\* the data a client sends with local-translation
TranslationData ==
  [transcript : {"namaste"}, language : {"hi"}, timestamp : {IsoString(now)},
   to : Speakers \cup {Undefined}]

\* socket.on('local-translation', (data))
LocalTranslation(s, data) ==
  /\ s \in connected
  /\ out' = IF data.to # Undefined
              THEN <<IoToEmit(connected, socketRooms, data.to, "local-translation",
                              [data EXCEPT !.timestamp = Stamp(data.timestamp, now)])>>
              ELSE <<>>
  /\ saved' = <<>>
  /\ UNCHANGED <<connected, socketRooms, rooms, transcripts, agentVars>>
  /\ Handled(Event("local-translation", s, "", Undefined, data.to))

\* the options of a client that pressed Create
CreatorOpts == [isCreator : {"true"}, isPublic : {Undefined}]

NextAgents ==
  \/ \E s \in Sockets : Connect(s)
  \/ \E s \in Sockets : Disconnect(s)
  \/ \E s \in Sockets : \E d \in AvailabilityData(s) : AvailabilityChanged(s, d)
  \/ \E s \in Sockets : GetAgentsOnline(s)
  \/ \E s \in Sockets : AgentsOnlineTimer(s)
  \/ PerformCleanup

NextTranscripts ==
  \/ \E s \in Speakers : Connect(s)
  \/ \E s \in Speakers : Disconnect(s)
  \/ \E s \in Speakers, r \in RoomArgs, o \in CreatorOpts : Join(s, r, o)
  \/ \E s \in Speakers, r \in RoomArgs : Leave(s, r)
  \/ \E s \in Speakers, m \in AllMessages : Transcript(s, m)
  \/ \E s \in Speakers, d \in TranslationData : LocalTranslation(s, d)
  \/ Tick
  \/ PerformCleanup
  \/ Shutdown
  \/ Exit

\* ------------------------------------------------------------------ the browser client
\* app.js keeps isInitiator and roomId; setupSocketHandlers is called once, when
\* the page loads, and its handlers read the isInitiator they were passed then
NoRoomId == "null"
NewClient ==
  [isInitiator |-> FALSE, roomId |-> NoRoomId, handlers |-> [isInitiator |-> FALSE]]

ClientStep(c, on, client, emits) ==
  /\ clients' = [clients EXCEPT ![c] = client]
  /\ sent' = [client |-> c, on |-> on, emits |-> emits]
  /\ UNCHANGED <<roomVars, translateVars, dictVars, agentVars, timeVars>>

\* createBtn.onclick: roomId is what generateRoomId() returned
ClickCreate(c, roomId) ==
  ClientStep(c, "create",
    [clients[c] EXCEPT !.isInitiator = TRUE, !.roomId = roomId],
    <<[event |-> "join", roomId |-> roomId, isCreator |-> "true"]>>)

\* joinBtn.onclick and window.joinMeeting
ClickJoin(c, roomId) ==
  ClientStep(c, "join",
    [clients[c] EXCEPT !.isInitiator = FALSE, !.roomId = roomId],
    <<[event |-> "join", roomId |-> roomId, isCreator |-> "false"]>>)

\* socket.on('created') and socket.on('joined'): both handlers of each
OnCreatedOrJoined(c, on, room) ==
  ClientStep(c, on,
    [clients[c] EXCEPT !.roomId = room],
    <<[event |-> "language-selected", roomId |-> room, isCreator |-> Undefined],
      [event |-> "get-active-meetings", roomId |-> Undefined, isCreator |-> Undefined]>>)

\* socket.on('user-joined'): `if (isInitiator) await createOffer(socket, setRoomId())`;
\* setRoomId() without argument sets roomId to undefined and returns undefined
OnUserJoined(c) ==
  IF clients[c].handlers.isInitiator
    THEN ClientStep(c, "user-joined",
           [clients[c] EXCEPT !.roomId = Undefined],
           <<[event |-> "offer", roomId |-> Undefined, isCreator |-> Undefined]>>)
    ELSE ClientStep(c, "user-joined", clients[c], <<>>)

\* languageSelect 'change': `if (setRoomId())` calls setRoomId without argument
OnLanguageChange(c) ==
  ClientStep(c, "language", [clients[c] EXCEPT !.roomId = Undefined], <<>>)

\* socket.on('offer'): the handler's peerConnection is the null it was passed,
\* and createPeerConnection is not in the scope of sockets.js: the call throws
\* a ReferenceError before its arguments are evaluated, no answer is sent
OnOffer(c) == ClientStep(c, "offer", clients[c], <<>>)

\* hangup()
Hangup(c) ==
  IF clients[c].roomId \notin {NoRoomId, Undefined}
    THEN ClientStep(c, "hangup",
           [clients[c] EXCEPT !.roomId = NoRoomId],
           <<[event |-> "leave", roomId |-> clients[c].roomId, isCreator |-> Undefined]>>)
    ELSE ClientStep(c, "hangup", clients[c], <<>>)

NextClient ==
  \/ \E c \in Sockets, r \in RoomIds : ClickCreate(c, r)
  \/ \E c \in Sockets, r \in RoomIds : ClickJoin(c, r)
  \/ \E c \in Sockets, on \in {"created", "joined"}, r \in RoomIds : OnCreatedOrJoined(c, on, r)
  \/ \E c \in Sockets : OnUserJoined(c)
  \/ \E c \in Sockets : OnLanguageChange(c)
  \/ \E c \in Sockets : OnOffer(c)
  \/ \E c \in Sockets : Hangup(c)

\* the server's agents, clock and phase when it starts to listen, and every
\* browser's page just loaded
InitLife ==
  /\ agentAvailability = EmptyMap
  /\ declared = [s \in Sockets |-> FALSE]
  /\ now = 0
  /\ phase = "running"
  /\ backend = "down"
  /\ clients = [c \in Sockets |-> NewClient]
  /\ sent = [client |-> "", on |-> "load", emits |-> <<>>]

\* ------------------------------------------------------------------ request texts
\* The text of a request is kept as runs of equal characters, so that a text
\* of maxTranslationLength characters is one run; " " is the whitespace.
RunLength(runs) ==
  LET RECURSIVE Sum(_)
      Sum(q) == IF q = <<>> THEN 0 ELSE Head(q).n + Sum(Tail(q))
  IN Sum(runs)

RECURSIVE TrimStart(_)
TrimStart(q) ==
  IF q # <<>> /\ Head(q).ch = " " THEN TrimStart(Tail(q)) ELSE q

RECURSIVE TrimEnd(_)
TrimEnd(q) ==
  IF q # <<>> /\ q[Len(q)].ch = " " THEN TrimEnd(SubSeq(q, 1, Len(q) - 1)) ELSE q

\* String.prototype.trim
Trim(q) == TrimEnd(TrimStart(q))

Run(ch, n) == [ch |-> ch, n |-> n]
StringText(runs) == [type |-> "string", runs |-> runs]

\* the text field of a request body: absent, not a string, or a string
Texts ==
  {[type |-> "undefined", runs |-> <<>>], [type |-> "number", runs |-> <<>>]}
  \cup {StringText(r) : r \in
         { <<>>, <<Run(" ", 2)>>, <<Run("a", 1)>>,
           <<Run(" ", 1), Run("a", maxTranslationLength), Run(" ", 1)>>,
           <<Run("a", maxTranslationLength + 1)>>,
           <<Run(" ", 1), Run("a", maxTranslationLength + 1)>> }}

\* `!text`: undefined and the empty string are falsy, a number here is not
Falsy(text) ==
  \/ text.type = "undefined"
  \/ text.type = "string" /\ RunLength(text.runs) = 0

\* validateInput accepting a text of maxLength + 1 characters
validateInputOffByOne(text, maxLength) ==
  IF Falsy(text) \/ text.type # "string"
    THEN [isValid |-> FALSE, error |-> "Text is required and must be a string", text |-> <<>>]
  ELSE IF RunLength(Trim(text.runs)) = 0
    THEN [isValid |-> FALSE, error |-> "Text cannot be empty", text |-> <<>>]
  ELSE IF RunLength(Trim(text.runs)) > maxLength + 1
    THEN [isValid |-> FALSE, error |-> "Text too long", text |-> <<>>]
  ELSE [isValid |-> TRUE, error |-> "", text |-> Trim(text.runs)]

\* validateInput(text, maxLength)
validateInput(text, maxLength) ==
  IF Falsy(text) \/ text.type # "string"
    THEN [isValid |-> FALSE, error |-> "Text is required and must be a string", text |-> <<>>]
  ELSE IF RunLength(Trim(text.runs)) = 0
    THEN [isValid |-> FALSE, error |-> "Text cannot be empty", text |-> <<>>]
  ELSE IF RunLength(Trim(text.runs)) > maxLength
    THEN [isValid |-> FALSE, error |-> "Text too long", text |-> <<>>]
  ELSE [isValid |-> TRUE, error |-> "", text |-> Trim(text.runs)]

\* ------------------------------------------------------------------ dictionary
\* Translated texts and dictionary terms are sequences of characters. "~" stands
\* for a letter outside [A-Za-z0-9_] (any letter of a non-Latin script).
WordChars == {"a", "b", "A", "B"}

\* \w of a JavaScript regular expression without the u flag
IsWordChar(c) == c \in WordChars

\* the case folding of the i flag
Lower(c) == IF c = "A" THEN "a" ELSE IF c = "B" THEN "b" ELSE c

RECURSIVE TrimChars(_)
\* String.prototype.trim on a sequence of characters
TrimChars(t) ==
  IF t # <<>> /\ Head(t) = " " THEN TrimChars(Tail(t))
  ELSE IF t # <<>> /\ t[Len(t)] = " " THEN TrimChars(SubSeq(t, 1, Len(t) - 1))
  ELSE t

\* the characters of word w stand at position i of text, case ignored
MatchAt(text, w, i) ==
  /\ i + Len(w) - 1 <= Len(text)
  /\ \A k \in 1..Len(w) : Lower(text[i + k - 1]) = Lower(w[k])

\* \b right before position p: exactly one of its two neighbours is a word character
WordBoundary(text, p) ==
  LET IsWordAt(q) == q >= 1 /\ q <= Len(text) /\ IsWordChar(text[q])
  IN IsWordAt(p - 1) # IsWordAt(p)

\* new RegExp(`\\b${escapedWord}\\b`, 'gi') matches at position i
BoundaryMatchAt(text, w, i) ==
  /\ MatchAt(text, w, i)
  /\ WordBoundary(text, i)
  /\ WordBoundary(text, i + Len(w))

RECURSIVE ReplaceAllFolding(_, _, _, _, _)
\* ReplaceAll lowering the case of the characters it copies
ReplaceAllFolding(text, w, english, strict, i) ==
  IF i > Len(text) THEN <<>>
  ELSE IF IF strict THEN BoundaryMatchAt(text, w, i) ELSE MatchAt(text, w, i)
    THEN english \o ReplaceAllFolding(text, w, english, strict, i + Len(w))
    ELSE <<Lower(text[i])>> \o ReplaceAllFolding(text, w, english, strict, i + 1)

RECURSIVE ReplaceAll(_, _, _, _, _)
\* text.replace(regex, english) with the g flag, from position i on: the
\* matches are taken left to right and do not overlap
ReplaceAll(text, w, english, strict, i) ==
  IF i > Len(text) THEN <<>>
  ELSE IF IF strict THEN BoundaryMatchAt(text, w, i) ELSE MatchAt(text, w, i)
    THEN english \o ReplaceAll(text, w, english, strict, i + Len(w))
    ELSE <<text[i]>> \o ReplaceAll(text, w, english, strict, i + 1)

\* the entries applyWordReplacements keeps: a target form and an English form
ValidEntry(entry, lang) ==
  /\ lang \in DOMAIN entry
  /\ "en" \in DOMAIN entry
  /\ TrimChars(entry[lang]) # <<>>
  /\ TrimChars(entry["en"]) # <<>>

RECURSIVE InsertByLength(_, _, _)
\* entry put behind every entry whose target form is at least as long (a stable sort)
InsertByLength(sorted, entry, lang) ==
  IF sorted = <<>> THEN <<entry>>
  ELSE IF Len(TrimChars(Head(sorted)[lang])) >= Len(TrimChars(entry[lang]))
    THEN <<Head(sorted)>> \o InsertByLength(Tail(sorted), entry, lang)
    ELSE <<entry>> \o sorted

RECURSIVE SortByLength(_, _)
\* validEntries.sort((a, b) => b[lang].trim().length - a[lang].trim().length)
SortByLength(entries, lang) ==
  IF entries = <<>> THEN <<>>
  ELSE InsertByLength(SortByLength(SubSeq(entries, 1, Len(entries) - 1), lang),
                      entries[Len(entries)], lang)

\* the body of sortedWords.forEach: the strict replacement, or the loose one
ReplaceEntry(text, entry, lang) ==
  LET targetWord == TrimChars(entry[lang])
      englishWord == TrimChars(entry["en"])
  IN IF \E i \in 1..Len(text) : BoundaryMatchAt(text, targetWord, i)
       THEN ReplaceAll(text, targetWord, englishWord, TRUE, 1)
       ELSE ReplaceAll(text, targetWord, englishWord, FALSE, 1)

RECURSIVE ReplaceEach(_, _, _)
ReplaceEach(text, sortedWords, lang) ==
  IF sortedWords = <<>> THEN text
  ELSE ReplaceEach(ReplaceEntry(text, Head(sortedWords), lang), Tail(sortedWords), lang)

\* applyWordReplacements(text, targetLang) over the table words
applyWordReplacements(words, text, lang) ==
  IF text = <<>> THEN text
  ELSE ReplaceEach(text,
         SortByLength(SelectSeq(words, LAMBDA e : ValidEntry(e, lang)), lang), lang)

\* ------------------------------------------------------------------ POST /api/translate
ReqIds == 1..MaxRequests

\* a language tag as its parts: "hi-IN" is <<"hi", "IN">>
\* `source.split('-')[0]`
LangCode(tag) == Head(tag)

Bodies ==
  [text : Texts, source : {<<"en", "US">>}, target : {<<"hi", "IN">>},
   roomId : {Undefined, "room42"}]

NoBody ==
  [text |-> [type |-> "undefined", runs |-> <<>>], source |-> <<"en", "US">>,
   target |-> <<"hi", "IN">>, roomId |-> Undefined]

\* a request: pc is where its handler stands ("none": no request, "health":
\* awaiting the on-demand probe, "translate": awaiting the backend, "done":
\* answered); calls are the backend calls made for it; status, error and
\* translated are its HTTP answer; probe is what its on-demand probe came to,
\* reply what its POST /translate came to
NoReply == [kind |-> "none", status |-> 0, text |-> <<>>, detail |-> ""]

NoRequest ==
  [pc |-> "none", body |-> NoBody, calls |-> <<>>, sent |-> <<>>, probe |-> "",
   reply |-> NoReply, status |-> 0, error |-> "", translated |-> <<>>]

\* what GET /health may come to: 200 with model_loaded true, 200 with
\* model_loaded false or absent, another status, a failed fetch
HealthOutcomes == {"loaded", "not-loaded", "non-200", "throws"}

\* checkPythonServiceHealth counting every 200 answer as healthy
HealthResultAny200(outcome) == outcome \in {"loaded", "not-loaded"}

\* checkPythonServiceHealth(): the value it stores in the flag and returns
HealthResult(outcome) == outcome = "loaded"

\* what POST /translate may come to: 200 with a text, a status that is not
\* ok with a detail (the backend refusing the input, the backend failing), the
\* fetch timing out, the connection refused
BackendTexts == {<<"~", "~">>, <<"a", "b">>, <<"a", "b", "a">>}
TranslateOutcomes ==
  {[kind |-> "ok", status |-> 200, text |-> t, detail |-> ""] : t \in BackendTexts}
  \cup {[kind |-> "not-ok", status |-> 422, text |-> <<>>, detail |-> "Text too long"],
        [kind |-> "not-ok", status |-> 500, text |-> <<>>,
         detail |-> "Internal Server Error"]}
  \cup {[kind |-> "timeout", status |-> 0, text |-> <<>>, detail |-> ""],
        [kind |-> "refused", status |-> 0, text |-> <<>>, detail |-> ""]}

\* the message of the error translateWithPythonService throws
ErrorMessage(outcome) ==
  IF outcome.kind = "not-ok"
    THEN [failed |-> TRUE, rest |-> outcome.detail]
  ELSE IF outcome.kind = "timeout"
    THEN [failed |-> FALSE, rest |-> "network timeout at: /translate"]
    ELSE [failed |-> FALSE, rest |-> "request to /translate failed, reason: ECONNREFUSED"]

\* err.message.includes('timeout')
IncludesTimeout(msg) == msg.rest = "network timeout at: /translate"
\* err.message.includes('Translation failed')
IncludesFailed(msg) == msg.failed

\* the catch block of the route: the status it answers with
ErrorStatus(msg) ==
  IF IncludesTimeout(msg) THEN 504
  ELSE IF IncludesFailed(msg) THEN 400
  ELSE 500

ErrorText(msg) ==
  IF IncludesTimeout(msg) THEN "Translation timeout - request took too long"
  ELSE IF IncludesFailed(msg) THEN msg.rest
  ELSE "Translation service temporarily unavailable"

\* the room id the route logs under
LogRoomId(body) ==
  IF body.roomId = Undefined THEN "general-20250101" ELSE body.roomId

\* logTranslation leaving out the main translation_logs.json
logTranslationRoomOnly(body, output) ==
  <<[file |-> LogRoomId(body),
     entry |-> [source |-> body.source, target |-> body.target,
                input |-> body.text, output |-> output]]>>

\* logTranslation: the per-room file and the main file, each with the entry pushed
logTranslation(body, output) ==
  LET logEntry == [source |-> body.source, target |-> body.target,
                   input |-> body.text, output |-> output]
  IN <<[file |-> LogRoomId(body), entry |-> logEntry],
       [file |-> "translation_logs.json", entry |-> logEntry]>>

\* the request once translateWithPythonService is called for it
CallTranslate(req, text) ==
  [req EXCEPT !.pc = "translate",
              !.calls = Append(@, "POST /translate"),
              !.sent = <<[text |-> text, source_lang |-> LangCode(req.body.source),
                          target_lang |-> LangCode(req.body.target)]>>]

Answer(req, status, error, translated) ==
  [req EXCEPT !.pc = "done", !.status = status, !.error = error,
              !.translated = translated]

\* StartTranslate probing the backend whatever the flag says
StartTranslateAlwaysProbes(body, healthy) ==
  LET validation == validateInput(body.text, maxTranslationLength)
      req == [NoRequest EXCEPT !.body = body]
  IN IF ~validation.isValid
       THEN Answer(req, 400, validation.error, <<>>)
       ELSE [req EXCEPT !.pc = "health", !.calls = <<"GET /health">>]

\* app.post('/api/translate') up to its first await, with the flag at healthy
StartTranslate(body, healthy) ==
  LET validation == validateInput(body.text, maxTranslationLength)
      req == [NoRequest EXCEPT !.body = body]
  IN IF ~validation.isValid
       THEN Answer(req, 400, validation.error, <<>>)
     ELSE IF ~healthy
       THEN [req EXCEPT !.pc = "health", !.calls = <<"GET /health">>]
     ELSE CallTranslate(req, validation.text)

\* AfterHealthCheck answering 503 whatever the probe returned
AfterHealthCheckRejects(req, healthCheck) ==
  Answer(req, 503,
    "Translation service unavailable - Python microservice is not responding", <<>>)

\* the route after `await checkPythonServiceHealth()` returned healthCheck
AfterHealthCheck(req, healthCheck) ==
  IF ~healthCheck
    THEN Answer(req, 503,
           "Translation service unavailable - Python microservice is not responding", <<>>)
    ELSE CallTranslate(req, validateInput(req.body.text, maxTranslationLength).text)

InitTranslate ==
  /\ pythonServiceHealthy = FALSE
  /\ requests = [q \in ReqIds |-> NoRequest]
  /\ logWrites = <<>>

\* a client posts to /api/translate
PostTranslate(q, body) ==
  /\ requests[q].pc \in {"none", "done"}
  /\ requests' = [requests EXCEPT ![q] = StartTranslate(body, pythonServiceHealthy)]
  /\ logWrites' = <<>>
  /\ UNCHANGED <<pythonServiceHealthy, excludedWords, roomVars, dictVars, lifeVars>>

\* the on-demand probe of request q completes
HealthReply(q, outcome) ==
  /\ requests[q].pc = "health"
  /\ pythonServiceHealthy' = HealthResult(outcome)
  /\ requests' = [requests EXCEPT ![q] =
       AfterHealthCheck([@ EXCEPT !.probe = outcome], HealthResult(outcome))]
  /\ logWrites' = <<>>
  /\ UNCHANGED <<excludedWords, roomVars, dictVars, lifeVars>>

\* the route calling translateWithPythonService once more after a failure
AfterTranslateFailureRetry(req, outcome) ==
  IF Len(req.calls) < 3
    THEN [req EXCEPT !.pc = "translate", !.calls = Append(@, "POST /translate")]
    ELSE Answer(req, ErrorStatus(ErrorMessage(outcome)),
                ErrorText(ErrorMessage(outcome)), <<>>)

\* the catch block of the route: the request after translateWithPythonService threw
AfterTranslateFailure(req, outcome) ==
  Answer(req, ErrorStatus(ErrorMessage(outcome)), ErrorText(ErrorMessage(outcome)), <<>>)

\* the backend call of request q completes
TranslateReply(q, outcome) ==
  /\ requests[q].pc = "translate"
  /\ IF outcome.kind = "ok"
       THEN LET translatedText ==
                  applyWordReplacements(excludedWords, outcome.text,
                                        LangCode(requests[q].body.target))
            IN /\ logWrites' = logTranslation(requests[q].body, translatedText)
               /\ requests' = [requests EXCEPT ![q] =
                    Answer([@ EXCEPT !.reply = outcome], 200, "", translatedText)]
       ELSE /\ logWrites' = <<>>
            /\ requests' = [requests EXCEPT ![q] =
                 AfterTranslateFailure([@ EXCEPT !.reply = outcome], outcome)]
  /\ UNCHANGED <<pythonServiceHealthy, excludedWords, roomVars, dictVars, lifeVars>>

\* the probe of initialize() and of the 30 s interval completes
PeriodicHealthCheck(outcome) ==
  /\ pythonServiceHealthy' = HealthResult(outcome)
  /\ logWrites' = <<>>
  /\ UNCHANGED <<excludedWords, requests, roomVars, dictVars, lifeVars>>

NextTranslate ==
  \/ \E q \in ReqIds, b \in Bodies : PostTranslate(q, b)
  \/ \E q \in ReqIds, o \in HealthOutcomes : HealthReply(q, o)
  \/ \E q \in ReqIds, o \in TranslateOutcomes : TranslateReply(q, o)
  \/ \E o \in HealthOutcomes : PeriodicHealthCheck(o)

\* what GET /health comes to while the backend is in state b
ProbeOutcomes(b) == IF b = "up" THEN {"loaded"} ELSE HealthOutcomes \ {"loaded"}

\* the Python service starts, stops, loads its model
BackendChanges ==
  /\ backend' = IF backend = "up" THEN "down" ELSE "up"
  /\ UNCHANGED <<roomVars, translateVars, dictVars, agentVars, clientVars, now, phase>>

\* the 30 s interval of initialize() fires and its probe completes
PeriodicProbe == \E o \in ProbeOutcomes(backend) : PeriodicHealthCheck(o)

\* requests with an empty and with a valid text; POST /translate answers
\* while the backend is up, and times out or is refused while it is down
NextHealth ==
  \/ \E q \in ReqIds :
       \E b \in {x \in Bodies :
                   /\ x.roomId = Undefined
                   /\ x.text \in {StringText(<<>>), StringText(<<Run("a", 1)>>)}} :
         PostTranslate(q, b)
  \/ \E q \in ReqIds, o \in ProbeOutcomes(backend) : HealthReply(q, o)
  \/ \E q \in ReqIds :
       \E o \in {x \in TranslateOutcomes :
                   IF backend = "up"
                     THEN x.kind \in {"ok", "not-ok"} /\ x.text \in {<<>>, <<"a", "b">>}
                     ELSE x.kind \in {"timeout", "refused"}} :
         TranslateReply(q, o)
  \/ PeriodicProbe
  \/ BackendChanges

\* the tables loadExcludedWords may find in excludedWords.json
LoadedTables ==
  { <<>>, <<[en |-> <<"A", "b">>, hi |-> <<"a", "b">>]>> }

\* ------------------------------------------------------------------ dictionary routes
\* String.prototype.toLowerCase
ToLowerCase(t) == [i \in 1..Len(t) |-> Lower(t[i])]

\* `!wordEntry.en`: the field is absent or the empty string
NoEnglish(wordEntry) == "en" \notin DOMAIN wordEntry \/ wordEntry["en"] = <<>>

\* excludedWords.findIndex(word => word.en?.toLowerCase() === wordEntry.en.toLowerCase()),
\* counted from 1; 0 stands for the -1 of findIndex
FindIndex(words, wordEntry) ==
  LET hits == {i \in 1..Len(words) :
                 /\ "en" \in DOMAIN words[i]
                 /\ ToLowerCase(words[i]["en"]) = ToLowerCase(wordEntry["en"])}
  IN IF hits = {} THEN 0 ELSE CHOOSE i \in hits : \A j \in hits : i <= j

\* { ...existing, ...wordEntry }
Spread(existing, wordEntry) ==
  [k \in DOMAIN existing \cup DOMAIN wordEntry |->
     IF k \in DOMAIN wordEntry THEN wordEntry[k] ELSE existing[k]]

\* the table of POST /api/dictionary always pushing the new entry
UpsertAlwaysPush(words, wordEntry) == Append(words, wordEntry)

\* the table POST /api/dictionary leaves: the entry merged into the one with the
\* same English term, or pushed
Upsert(words, wordEntry) ==
  LET existingIndex == FindIndex(words, wordEntry)
  IN IF existingIndex # 0
       THEN [words EXCEPT ![existingIndex] = Spread(@, wordEntry)]
       ELSE Append(words, wordEntry)

\* the index parameter of DELETE /api/dictionary/:index after parseInt
NaN == [nan |-> TRUE, n |-> 0]
Index(n) == [nan |-> FALSE, n |-> n]

\* `index < 0 || index >= excludedWords.length`: false for NaN
OutOfRange(words, index) == ~index.nan /\ (index.n < 0 \/ index.n >= Len(words))

\* excludedWords.splice(index, 1): NaN is taken as 0
Splice(words, index) ==
  LET start == IF index.nan THEN 0 ELSE index.n
  IN [i \in 1..(Len(words) - (IF start < Len(words) THEN 1 ELSE 0)) |->
        IF i <= start THEN words[i] ELSE words[i + 1]]

\* saveExcludedWords(): the file after it, whether fs.writeFileSync threw or not
saveExcludedWords(file, words, written) == IF written THEN words ELSE file

NoAnswer == [op |-> "none", status |-> 0, body |-> EmptyMap, index |-> Index(0)]
NoApplied == [done |-> FALSE, words |-> <<>>, text |-> <<>>, lang |-> "", result |-> <<>>]

InitDictionary ==
  /\ excludedWordsFile = excludedWords
  /\ dictAnswer = NoAnswer
  /\ applied = NoApplied

\* app.post('/api/dictionary')
AddWord(wordEntry, written) ==
  /\ IF NoEnglish(wordEntry)
       THEN /\ dictAnswer' = [NoAnswer EXCEPT !.op = "add", !.status = 400, !.body = wordEntry]
            /\ UNCHANGED <<excludedWords, excludedWordsFile>>
       ELSE /\ Len(Upsert(excludedWords, wordEntry)) <= MaxWords
            /\ excludedWords' = Upsert(excludedWords, wordEntry)
            /\ excludedWordsFile' = saveExcludedWords(excludedWordsFile, excludedWords', written)
            /\ dictAnswer' = [NoAnswer EXCEPT !.op = "add", !.status = 200, !.body = wordEntry]
  /\ applied' = NoApplied
  /\ UNCHANGED <<roomVars, pythonServiceHealthy, requests, logWrites, lifeVars>>

\* app.delete('/api/dictionary/:index')
DeleteWord(index, written) ==
  /\ IF OutOfRange(excludedWords, index)
       THEN /\ dictAnswer' = [NoAnswer EXCEPT !.op = "delete", !.status = 404, !.index = index]
            /\ UNCHANGED <<excludedWords, excludedWordsFile>>
       ELSE /\ excludedWords' = Splice(excludedWords, index)
            /\ excludedWordsFile' = saveExcludedWords(excludedWordsFile, excludedWords', written)
            /\ dictAnswer' = [NoAnswer EXCEPT !.op = "delete", !.status = 200, !.index = index]
  /\ applied' = NoApplied
  /\ UNCHANGED <<roomVars, pythonServiceHealthy, requests, logWrites, lifeVars>>

\* app.delete('/api/dictionary')
ClearWords(written) ==
  /\ excludedWords' = <<>>
  /\ excludedWordsFile' = saveExcludedWords(excludedWordsFile, excludedWords', written)
  /\ dictAnswer' = [NoAnswer EXCEPT !.op = "clear", !.status = 200]
  /\ applied' = NoApplied
  /\ UNCHANGED <<roomVars, pythonServiceHealthy, requests, logWrites, lifeVars>>

\* the route's `translatedText = applyWordReplacements(translatedText, tl)`
ApplyWords(text, lang) ==
  /\ applied' = [done |-> TRUE, words |-> excludedWords, text |-> text, lang |-> lang,
                  result |-> applyWordReplacements(excludedWords, text, lang)]
  /\ dictAnswer' = NoAnswer
  /\ UNCHANGED <<excludedWords, excludedWordsFile>>
  /\ UNCHANGED <<roomVars, pythonServiceHealthy, requests, logWrites, lifeVars>>

\* the bodies of POST /api/dictionary: objects with an en and a hi field, or less
EnglishTerms == {<<>>, <<"b">>, <<"B">>, <<"a", "a">>}
LocalForms == {<<"a">>, <<"a", "b">>}
WordEntries ==
  {EmptyMap}
  \cup {[k \in {"en"} |-> e] : e \in EnglishTerms}
  \cup {[k \in {"en", "hi"} |-> IF k = "en" THEN e ELSE h] :
          e \in EnglishTerms, h \in LocalForms}

\* the :index of DELETE /api/dictionary/:index
Indexes == {Index(n) : n \in -1..MaxWords} \cup {NaN}

\* the texts the backend returns and the target language codes of a request
TranslatedTexts ==
  {<<>>, <<"a">>, <<"A", "b">>, <<"a", "b">>, <<"B">>, <<"~", " ", "a", "b">>,
   <<"b", "a", "b">>, <<"~", "~">>}
TargetCodes == {"hi", "en"}

NextDictionary ==
  \/ \E e \in WordEntries, w \in BOOLEAN : AddWord(e, w)
  \/ \E i \in Indexes, w \in BOOLEAN : DeleteWord(i, w)
  \/ \E w \in BOOLEAN : ClearWords(w)
  \/ \E t \in TranslatedTexts, l \in TargetCodes : ApplyWords(t, l)

\* ------------------------------------------------------------------ specifications
\* the server once it listens: no connection, no room, no request, and no
\* dictionary file
Init ==
  /\ InitRooms
  /\ InitTranslate
  /\ excludedWords = <<>>
  /\ InitDictionary
  /\ InitLife

\* the same with the dictionary loadExcludedWords found
InitLoaded ==
  /\ InitRooms
  /\ InitTranslate
  /\ excludedWords \in LoadedTables
  /\ InitDictionary
  /\ InitLife

\* the socket.io handlers
Spec == Init /\ [][Next]_vars

\* the translation route and the health probes
SpecTranslate == InitLoaded /\ [][NextTranslate]_vars

\* the dictionary routes and the replacements
SpecDictionary == InitLoaded /\ [][NextDictionary]_vars

\* the availability of agents and the count pushed to the connections
SpecAgents == Init /\ [][NextAgents]_vars

\* the transcript buffers: appended to, relayed, swept, flushed at shutdown
SpecTranscripts == Init /\ [][NextTranscripts]_vars

\* the health gate with the backend going down and up; setInterval keeps
\* firing the periodic probe
SpecHealth == Init /\ [][NextHealth]_vars /\ WF_vars(PeriodicProbe)

\* the browser client, receiving what a server may send
SpecClient == Init /\ [][NextClient]_vars

\* ------------------------------------------------------------------ properties
InSeq(x, q) == \E i \in 1..Len(q) : q[i] = x
ParticipantsOf(rs, r) == IF r \in DOMAIN rs THEN rs[r].participants ELSE <<>>
Emits(o, event) == {i \in 1..Len(o) : o[i].event = event}
RoomStateUnchanged ==
  /\ rooms' = rooms
  /\ socketRooms' = socketRooms
  /\ transcripts' = transcripts
  /\ connected' = connected

\* C1: no room ever holds more participants than config.maxRoomParticipants, and
\* a join of a room that already holds that many answers 'full' to the joiner
\* alone and leaves the room store (and all other state) as it was.
C1_CapacityAndFull ==
  [][ /\ \A r \in DOMAIN rooms' : Len(rooms'[r].participants) <= maxRoomParticipants
      /\ ( /\ ev'.name = "join"
           /\ ev'.roomId \in DOMAIN rooms
           /\ Len(rooms[ev'.roomId].participants) = maxRoomParticipants )
         => ( /\ out' = <<[event |-> "full", payload |-> ev'.roomId, to |-> {ev'.socket}]>>
              /\ RoomStateUnchanged )
    ]_vars

C1_Witness ==
  /\ ev.name = "join"
  /\ Emits(out, "full") # {}
  /\ ev.roomId \in DOMAIN rooms
  /\ Len(rooms[ev.roomId].participants) = maxRoomParticipants

\* C2 as stated: a join of any room id that is not in the store, without creator
\* intent, answers 'no-room' and changes nothing.
C2_AsStated ==
  [][ ( /\ ev'.name = "join"
        /\ ev'.roomId \notin DOMAIN rooms
        /\ ~Truthy(ev'.creator) )
      => ( /\ out' = <<[event |-> "no-room", payload |-> ev'.roomId, to |-> {ev'.socket}]>>
           /\ RoomStateUnchanged )
    ]_vars

\* C2: a join of a valid (non-empty string) room id that is not in the store,
\* with isCreator false or absent, answers 'no-room' to the joiner alone, creates
\* no room and changes no other state.
C2_NoRoom ==
  [][ ( /\ ev'.name = "join"
        /\ ValidRoomId(ev'.roomId)
        /\ ev'.roomId \notin DOMAIN rooms
        /\ ~Truthy(ev'.creator) )
      => ( /\ out' = <<[event |-> "no-room", payload |-> ev'.roomId, to |-> {ev'.socket}]>>
           /\ RoomStateUnchanged )
    ]_vars

C2_Witness ==
  /\ ev.name = "join"
  /\ ev.creator = Undefined
  /\ Emits(out, "no-room") # {}
  /\ ev.roomId \notin DOMAIN rooms

\* C3: a join that takes a room from one participant to two emits 'user-joined'
\* exactly once, to the participant that was in the room and to nobody else; no
\* other event emits 'user-joined'.
C3_UserJoinedOnce ==
  [][ LET r == ev'.roomId
          pairing == /\ ev'.name = "join"
                     /\ r \in DOMAIN rooms
                     /\ r \in DOMAIN rooms'
                     /\ Len(rooms[r].participants) = 1
                     /\ Len(rooms'[r].participants) = 2
      IN IF pairing
           THEN /\ Cardinality(Emits(out', "user-joined")) = 1
                /\ \A i \in Emits(out', "user-joined") :
                     out'[i].to = {rooms[r].participants[1]}
           ELSE Emits(out', "user-joined") = {}
    ]_vars

C3_Witness ==
  /\ ev.name = "join"
  /\ ev.roomId \in DOMAIN rooms
  /\ Len(rooms[ev.roomId].participants) = 2
  /\ rooms[ev.roomId].participants[1] # ev.socket
  /\ \E i \in Emits(out, "user-joined") : out[i].to = {rooms[ev.roomId].participants[1]}

\* C4: a leave sent for a room that holds participants by a connection that is
\* not (or no longer) one of them changes no room and no transcript buffer and
\* delivers no peer-left notification to anyone, so a second leave adds
\* nothing to the first.
C4_LeaveIdempotent ==
  [][ ( /\ ev'.name = "leave"
        /\ Len(ParticipantsOf(rooms, ev'.roomId)) > 0
        /\ ~InSeq(ev'.socket, ParticipantsOf(rooms, ev'.roomId)) )
      => ( /\ rooms' = rooms
           /\ transcripts' = transcripts
           /\ \A i \in Emits(out', "user-disconnected") : out'[i].to = {} )
    ]_vars

\* the lines a flush of buffer log must hold: every message, in order
HoldsAll(content, log) ==
  /\ Len(content) = Len(log)
  /\ \A i \in 1..Len(log) :
       /\ content[i].transcript = log[i].transcript
       /\ content[i].sender = log[i].sender
       /\ content[i].time = log[i].timestamp
       /\ content[i].translated = (log[i].type = "translation")

C6_RelayToPeerOnly ==
  [][ \A other \in Sockets :
        LET parts == ParticipantsOf(rooms, ev'.roomId)
        IN ( /\ ev'.name \in SignalNames
             /\ Len(parts) = 2
             /\ InSeq(ev'.socket, parts)
             /\ InSeq(other, parts)
             /\ other # ev'.socket )
           => ( /\ out' = <<[event |-> ev'.name, payload |-> ev'.payload, to |-> {other}]>>
                /\ RoomStateUnchanged )
    ]_vars

C6_Witness ==
  /\ ev.name = "answer"
  /\ ev.payload = "sdp2"
  /\ Len(ParticipantsOf(rooms, ev.roomId)) = 2
  /\ ev.socket = rooms[ev.roomId].participants[2]
  /\ Cardinality(connected) = MaxSockets
  /\ Len(out) = 1
  /\ out[1].to = {rooms[ev.roomId].participants[1]}

\* C7: a signalling event for a room id that is not in the store, or for a room
\* with no participant but the sender, is delivered to nobody, emits nothing
\* (no error either) and changes no state.
C7_RelayDropped ==
  [][ LET parts == ParticipantsOf(rooms, ev'.roomId)
      IN ( /\ ev'.name \in SignalNames
           /\ \/ ev'.roomId \notin DOMAIN rooms
              \/ \A i \in 1..Len(parts) : parts[i] = ev'.socket )
         => ( /\ out' = <<>>
              /\ saved' = <<>>
              /\ RoomStateUnchanged )
    ]_vars

\* a signal for the id of a room that was deleted, while its former peer is live
C7_Witness ==
  /\ ev.name \in SignalNames
  /\ ev.roomId \in RoomIds
  /\ ev.roomId \notin DOMAIN rooms
  /\ \E s \in connected \ {ev.socket} : InSeq(ev.roomId, socketRooms[s])
  /\ out = <<>>

\* the first three steps of the run of C8: created, then joined and user-joined,
\* then the offer to B alone
RunUpToOffer ==
  /\ scenario.stage = 1 =>
       out = <<[event |-> "created", payload |-> scenario.roomId, to |-> {scenario.a}]>>
  /\ scenario.stage = 2 =>
       /\ \E i \in Emits(out, "joined") :
            out[i].payload = scenario.roomId /\ out[i].to = {scenario.b}
       /\ \E i \in Emits(out, "user-joined") : out[i].to = {scenario.a}
  /\ scenario.stage = 3 =>
       out = <<[event |-> "offer", payload |-> ev.payload, to |-> {scenario.b}]>>

\* the active-meetings broadcasts of the last event: sent to every live connection
Broadcasts == {i \in Emits(out, "active-meetings") : out[i].to = connected}

\* C8 as stated: ... B disconnects, A receives 'user-disconnected', and the
\* snapshot then broadcast has no entry for the room.
C8_AsStated ==
  /\ RunUpToOffer
  /\ scenario.stage = 4 =>
       /\ \E i \in Emits(out, "user-disconnected") : scenario.a \in out[i].to
       /\ Broadcasts # {}
       /\ \A i \in Broadcasts : \A m \in out[i].payload : m.roomId # scenario.roomId

\* C8: A creates the room by a creator join and gets 'created'; B joins and gets
\* 'joined' while A gets 'user-joined'; A's offer reaches B alone; B disconnects,
\* A receives 'user-disconnected', and the snapshot then broadcast lists the
\* room with one participant when it is public, and not at all when private.
C8_EndToEnd ==
  /\ RunUpToOffer
  /\ scenario.stage = 4 =>
       /\ \E i \in Emits(out, "user-disconnected") : scenario.a \in out[i].to
       /\ Broadcasts # {}
       /\ \A i \in Broadcasts :
            IF scenario.isPublic
              THEN [roomId |-> scenario.roomId, participants |-> 1] \in out[i].payload
              ELSE \A m \in out[i].payload : m.roomId # scenario.roomId

C8_Witness ==
  /\ scenario.stage = 4
  /\ scenario.isPublic
  /\ ev.name = "disconnect"
  /\ ev.socket = scenario.b
  /\ rooms[scenario.roomId].participants = <<scenario.a>>

\* a text validateInput must refuse: no string, nothing left after trimming, or
\* more than maxTranslationLength characters left
InvalidText(t) ==
  \/ t.type # "string"
  \/ RunLength(Trim(t.runs)) = 0
  \/ RunLength(Trim(t.runs)) > maxTranslationLength

\* C9: a request whose text is missing, not a string, empty after trimming or
\* longer than maxTranslationLength after trimming is answered 400 with no
\* backend call made for it (no /health, no /translate), and no log entry is
\* ever written for such a text.
C9_InvalidInputNoCall ==
  /\ \A q \in ReqIds :
       (requests[q].pc # "none" /\ InvalidText(requests[q].body.text))
       => ( /\ requests[q].pc = "done"
            /\ requests[q].status = 400
            /\ requests[q].calls = <<>> )
  /\ \A i \in 1..Len(logWrites) : ~InvalidText(logWrites[i].entry.input)

\* a text one character too long after trimming is refused while another
\* request is at the backend
C9_Witness ==
  \E q, p \in ReqIds :
    /\ requests[q].body.text.type = "string"
    /\ RunLength(requests[q].body.text.runs) = maxTranslationLength + 2
    /\ requests[q].status = 400
    /\ requests[q].calls = <<>>
    /\ requests[p].pc = "translate"

\* the answers to GET /health that leave the backend unhealthy
FailedProbes == {"not-loaded", "non-200", "throws"}

\* C10: a valid request that finds the flag false and whose on-demand probe
\* fails ends with 503, and no POST /translate is made for it.
C10_UnhealthyShortCircuit ==
  \A q \in ReqIds :
    requests[q].probe \in FailedProbes
    => ( /\ requests[q].pc = "done"
         /\ requests[q].status = 503
         /\ requests[q].calls = <<"GET /health">> )

\* the probe of a request fails although another probe has just set the flag
C10_Witness ==
  \E q \in ReqIds :
    /\ requests[q].probe = "not-loaded"
    /\ requests[q].status = 503
    /\ requests[q].body.roomId = "room42"

\* the POST /translate calls made for a request
TranslateCalls(req) == {i \in 1..Len(req.calls) : req.calls[i] = "POST /translate"}

\* C11: whatever a translate request comes to, at most one POST /translate is
\* sent for it; a request whose backend call failed is answered with the
\* failure at once, with that one call made and no second one.
C11_NoRetry ==
  \A q \in ReqIds :
    /\ Cardinality(TranslateCalls(requests[q])) <= 1
    /\ requests[q].reply.kind \in {"not-ok", "timeout", "refused"}
       => ( /\ requests[q].pc = "done"
            /\ requests[q].status \in {400, 500, 504}
            /\ requests[q].translated = <<>>
            /\ Cardinality(TranslateCalls(requests[q])) = 1 )

\* a request that went through the on-demand probe and then timed out
C11_Witness ==
  \E q \in ReqIds :
    /\ requests[q].reply.kind = "timeout"
    /\ requests[q].status = 504
    /\ requests[q].calls = <<"GET /health", "POST /translate">>

\* C12: a failed POST /translate is classified by its cause: the backend
\* refusing the input (a 4xx answer) gives 400 with the backend's detail, a
\* timeout gives 504, and every other failure, a backend server error (5xx)
\* included, gives 500.
C12_ClassifiedByCause ==
  \A q \in ReqIds :
    LET reply == requests[q].reply
    IN /\ (reply.kind = "not-ok" /\ reply.status \in 400..499)
          => (requests[q].status = 400 /\ requests[q].error = reply.detail)
       /\ reply.kind = "timeout" => requests[q].status = 504
       /\ (reply.kind = "refused" \/ (reply.kind = "not-ok" /\ reply.status >= 500))
          => requests[q].status = 500

\* C13: every translate request that is answered, with success or with a
\* failure (invalid input, service unavailable, backend error, timeout), has a
\* log entry written in the step that answers it.
C13_EveryCallLogged ==
  [][ \A q \in ReqIds :
        (requests[q].pc # "done" /\ requests'[q].pc = "done")
        => \E i \in 1..Len(logWrites') : logWrites'[i].entry.input = requests'[q].body.text
    ]_vars

\* the writes of the last step to the log file named file
WritesTo(file) == {i \in 1..Len(logWrites) : logWrites[i].file = file}

SameLetter(c, d) == c = d \/ {c, d} = {"a", "A"} \/ {c, d} = {"b", "B"}

\* form occurs in text at position i, case ignored
OccursAt(text, form, i) ==
  /\ i >= 1
  /\ i + Len(form) - 1 <= Len(text)
  /\ \A k \in 1..Len(form) : SameLetter(text[i + k - 1], form[k])

Occurs(text, form) == \E i \in 1..Len(text) : OccursAt(text, form, i)

\* text holds nothing but spaces and letters of another script
Filler(text) == \A i \in 1..Len(text) : text[i] \in {" ", "~"}

\* C15: for a target language other than English and
\* a table of two valid entries of which one's localized form is
\* contained in the other's longer form, a text that holds the longer form
\* once, between filler, comes back with that occurrence replaced by the longer
\* entry's English term and nothing else changed: the shorter entry is applied
\* neither to the occurrence nor to its replacement.
C15_LongestMatchFirst ==
  applied.done =>
    \A L, S \in 1..Len(applied.words) :
      LET words == applied.words
          lang == applied.lang
          text == applied.text
      IN ( /\ Len(words) = 2
           /\ lang # "en"
           /\ ValidEntry(words[L], lang)
           /\ ValidEntry(words[S], lang)
           /\ Len(words[L][lang]) > Len(words[S][lang])
           /\ Occurs(words[L][lang], words[S][lang]) )
         => \A i \in 1..Len(text) :
              LET pre == SubSeq(text, 1, i - 1)
                  post == SubSeq(text, i + Len(words[L][lang]), Len(text))
              IN (OccursAt(text, words[L][lang], i) /\ Filler(pre) /\ Filler(post))
                 => applied.result = pre \o words[L]["en"] \o post

\* no valid entry of the table has its localized form in text
NoFormIn(words, text, lang) ==
  \A n \in 1..Len(words) :
    ValidEntry(words[n], lang) => ~Occurs(text, TrimChars(words[n][lang]))

\* C16: applyWordReplacements returns a text that holds no localized form of a
\* valid entry (case ignored, as a word or inside one) as it is; so applying it
\* again to a result that holds no localized form gives that result; and the
\* call leaves the dictionary table as it was.
C16_NoFormUnchanged ==
  applied.done =>
    /\ NoFormIn(applied.words, applied.text, applied.lang)
       => applied.result = applied.text
    /\ NoFormIn(applied.words, applied.result, applied.lang)
       => applyWordReplacements(applied.words, applied.result, applied.lang)
            = applied.result
    /\ excludedWords = applied.words

\* a text in capitals that no entry of a table of two valid entries matches
C16_Witness ==
  /\ applied.done
  /\ Len(applied.words) = MaxWords
  /\ \A n \in 1..Len(applied.words) : ValidEntry(applied.words[n], applied.lang)
  /\ applied.text = <<"B">>
  /\ applied.result = <<"B">>

\* no two entries of the table have the same English term, case ignored
UniqueEnglish(words) ==
  \A m, n \in 1..Len(words) :
    ( /\ m # n
      /\ "en" \in DOMAIN words[m]
      /\ "en" \in DOMAIN words[n]
      /\ Len(words[m]["en"]) = Len(words[n]["en"]) )
    => ~OccursAt(words[m]["en"], words[n]["en"], 1)

\* the entries of the table with the English term of entry, case ignored
SameEnglish(words, entry) ==
  {n \in 1..Len(words) :
     /\ "en" \in DOMAIN words[n]
     /\ Len(words[n]["en"]) = Len(entry["en"])
     /\ OccursAt(words[n]["en"], entry["en"], 1)}

\* C17: an add that succeeds merges the entry into the table entry with the
\* same English term (case ignored), at its place and with the table as long
\* as before, or appends it when there is none; and no add, delete or clear
\* makes two entries share an English term when no two did before.
C17_AddIsUpsert ==
  [][ /\ (dictAnswer'.op = "add" /\ dictAnswer'.status = 200)
         => LET entry == dictAnswer'.body
                same == SameEnglish(excludedWords, entry)
            IN IF same # {}
                 THEN /\ Len(excludedWords') = Len(excludedWords)
                      /\ \E n \in same :
                           /\ \A k \in DOMAIN entry : excludedWords'[n][k] = entry[k]
                           /\ \A k \in DOMAIN excludedWords[n] \ DOMAIN entry :
                                excludedWords'[n][k] = excludedWords[n][k]
                           /\ \A m \in 1..Len(excludedWords) \ {n} :
                                excludedWords'[m] = excludedWords[m]
                 ELSE excludedWords' = Append(excludedWords, entry)
      /\ UniqueEnglish(excludedWords) => UniqueEnglish(excludedWords')
    ]_vars

\* {en: 'B'} was added to a table whose first entry had the term in another
\* case: the entry kept its place and its hi field
C17_Witness ==
  /\ dictAnswer.op = "add"
  /\ dictAnswer.status = 200
  /\ dictAnswer.body = [k \in {"en"} |-> <<"B">>]
  /\ Len(excludedWords) = 2
  /\ excludedWords[1] = [en |-> <<"B">>, hi |-> <<"a">>]

\* C18: when an add, delete or clear is answered with success, the table in
\* excludedWords.json is the table in memory.
C18_SuccessMeansPersisted ==
  (dictAnswer.op \in {"add", "delete", "clear"} /\ dictAnswer.status = 200)
  => excludedWordsFile = excludedWords

\* the snapshot of store rs: its public rooms that hold a participant, each
\* with the length of its participant list
Snapshot(rs) ==
  {[roomId |-> r, participants |-> Len(rs[r].participants)] :
     r \in {x \in DOMAIN rs : rs[x].isPublic /\ rs[x].participants # <<>>}}

\* C19: every event that adds a participant to a room (the creator's join that
\* creates the room included) or removes one from a room is followed, in the
\* same step, by an 'active-meetings' broadcast to all live connections that
\* holds the snapshot of the store after the event.
C19_BroadcastOnChange ==
  [][ (\E r \in DOMAIN rooms \cup DOMAIN rooms' :
         ParticipantsOf(rooms', r) # ParticipantsOf(rooms, r))
      => \E i \in Emits(out', "active-meetings") :
           /\ out'[i].to = connected'
           /\ out'[i].payload = Snapshot(rooms')
    ]_vars

\* C20: every 'active-meetings' list sent, broadcast or in reply to
\* get-active-meetings, has exactly one entry for each public room that holds
\* a participant, with the length of its participant list, and no entry for a
\* private room, an empty room or a room that is not in the store.
C20_SnapshotExact ==
  \A i \in Emits(out, "active-meetings") :
    /\ \A r \in DOMAIN rooms :
         LET entries == {m \in out[i].payload : m.roomId = r}
         IN IF rooms[r].isPublic /\ Len(rooms[r].participants) > 0
              THEN entries = {[roomId |-> r, participants |-> Len(rooms[r].participants)]}
              ELSE entries = {}
    /\ \A m \in out[i].payload : m.roomId \in DOMAIN rooms

\* a reply to get-active-meetings that lists a room of two while a third
\* connection is live
C20_Witness ==
  /\ ev.name = "get-active-meetings"
  /\ Cardinality(connected) = MaxSockets
  /\ \E r \in DOMAIN rooms :
       /\ Len(rooms[r].participants) = 2
       /\ out = <<[event |-> "active-meetings",
                   payload |-> {[roomId |-> r, participants |-> 2]},
                   to |-> {ev.socket}]>>

\* ------------------------------------------------------------------ agents, retention, shutdown
DeclaredAvailable == {s \in connected : declared[s]}
BufferOf(ts, r) == IF r \in DOMAIN ts THEN ts[r] ELSE <<>>
Flushed(files, r) == \E i \in 1..Len(files) : files[i].roomId = r
IsPrefix(a, b) == Len(a) <= Len(b) /\ \A i \in 1..Len(a) : a[i] = b[i]

\* C21: every 'agents-online' count pushed to a connection equals the number
\* of connected connections whose most recently declared availability is
\* true: a disconnected agent is not counted, a connected agent flagged
\* available is counted until it changes its flag or disconnects.
C21_CountsConnectedAvailable ==
  \A i \in Emits(out, "agents-online") :
    out[i].to # {} => out[i].payload = Cardinality(DeclaredAvailable)

\* the buffers whose oldest event was sent more than the retention horizon
\* before t
Stale(ts, t) ==
  {r \in DOMAIN ts :
     Len(ts[r]) > 0 /\ ts[r][1].timestamp.t < t - transcriptRetentionHours}

\* C22: each run of the retention sweep flushes and removes every buffer
\* whose oldest event is older than the retention horizon, for events
\* timestamped as clients send them, and leaves the other buffers unchanged.
C22_SweepsStaleBuffers ==
  [][ ev'.name = "cleanup" =>
        \A r \in DOMAIN transcripts :
          IF r \in Stale(transcripts, now)
            THEN r \notin DOMAIN transcripts' /\ Flushed(saved', r)
            ELSE BufferOf(transcripts', r) = transcripts[r]
    ]_vars

\* C23: on a shutdown signal every non-empty transcript buffer that exists
\* at that moment is written to storage.
C23_ShutdownFlushesAll ==
  [][ ev'.name = "shutdown" =>
        \A r \in DOMAIN transcripts :
          Len(transcripts[r]) > 0 => Flushed(saved', r)
    ]_vars

\* C24: a flush, whichever trigger causes it, leaves the in-memory buffer of
\* the room it wrote empty, so that no buffered event is written twice.
C24_FlushEmptiesBuffer ==
  \A i \in 1..Len(saved) : BufferOf(transcripts, saved[i].roomId) = <<>>

\* C25: between two flushes a room's buffer only grows: a step that writes no
\* transcript for the room leaves every buffered entry in place, unmodified
\* and in the same order.
C25_BufferOnlyGrows ==
  [][ \A r \in RoomIds :
        \/ IsPrefix(BufferOf(transcripts, r), BufferOf(transcripts', r))
        \/ Flushed(saved', r)
    ]_vars

\* C26: a transcript event sent by one of the two participants of a room is
\* buffered, and is delivered to the other participant and to no one else,
\* unless its type is 'translation': then it is buffered but delivered to no
\* connection.
C26_TranscriptToPeerOnly ==
  [][ \A other \in Sockets :
        LET parts == ParticipantsOf(rooms, ev'.roomId)
            log == BufferOf(transcripts', ev'.roomId)
        IN ( /\ ev'.name = "transcript"
             /\ Len(parts) = 2
             /\ InSeq(ev'.socket, parts)
             /\ InSeq(other, parts)
             /\ other # ev'.socket )
           => ( /\ Len(log) = Len(BufferOf(transcripts, ev'.roomId)) + 1
                /\ log[Len(log)].type = ev'.payload
                /\ IF ev'.payload = "translation"
                     THEN out' = <<>>
                     ELSE /\ Len(out') = 1
                          /\ out'[1].event = "transcript"
                          /\ out'[1].to = {other}
                          /\ out'[1].payload.roomId = ev'.roomId
                          /\ out'[1].payload.type = ev'.payload )
    ]_vars

\* a spoken transcript of the second participant reaches the first one only,
\* while a third connection is live
C26_Witness ==
  /\ ev.name = "transcript"
  /\ ev.payload = Undefined
  /\ Len(ParticipantsOf(rooms, ev.roomId)) = 2
  /\ ev.socket = rooms[ev.roomId].participants[2]
  /\ Cardinality(connected) = MaxSockets
  /\ Len(out) = 1
  /\ out[1].to = {rooms[ev.roomId].participants[1]}
  /\ Len(BufferOf(transcripts, ev.roomId)) = 1

\* C27: a translation result pushed back to the speaker is also appended to
\* a room's transcript buffer as a translation event.
C27_TranslationBuffered ==
  [][ (ev'.name = "local-translation" /\ ev'.payload \in connected) =>
        \E r \in DOMAIN transcripts' :
          LET log == transcripts'[r]
          IN /\ Len(log) = Len(BufferOf(transcripts, r)) + 1
             /\ log[Len(log)].type = "translation"
    ]_vars

\* C28: createRoom with an id that is in the store answers 'Room already
\* exists' and changes nothing; with a valid new id it puts an empty public
\* room with the given language tag into the store, changes nothing else, and
\* reports success.
C28_CreateRoom ==
  [][ ev'.name = "createRoom" =>
        LET r == ev'.roomId
            s == ev'.socket
        IN /\ r \in DOMAIN rooms =>
                /\ out' = <<[event |-> "createRoomResult",
                             payload |-> [success |-> FALSE, error |-> "Room already exists"],
                             to |-> {s}]>>
                /\ RoomStateUnchanged
                /\ UNCHANGED agentAvailability
                /\ saved' = <<>>
           /\ (ValidRoomId(r) /\ r \notin DOMAIN rooms) =>
                /\ DOMAIN rooms' = DOMAIN rooms \cup {r}
                /\ rooms'[r] = [participants |-> <<>>, isPublic |-> TRUE, lang |-> ev'.payload]
                /\ \A x \in DOMAIN rooms : rooms'[x] = rooms[x]
                /\ out' = <<[event |-> "createRoomResult",
                             payload |-> [success |-> TRUE, roomId |-> r],
                             to |-> {s}]>>
                /\ UNCHANGED <<connected, socketRooms, transcripts, agentAvailability>>
                /\ saved' = <<>>
    ]_vars

\* createRoom refused for the id of a room that holds two participants
C28_Witness ==
  /\ ev.name = "createRoom"
  /\ ev.roomId \in DOMAIN rooms
  /\ Len(rooms[ev.roomId].participants) = 2
  /\ out = <<[event |-> "createRoomResult",
              payload |-> [success |-> FALSE, error |-> "Room already exists"],
              to |-> {ev.socket}]>>

\* C29: the participant list of a room is always the result of applying the
\* join and leave events one at a time in the order the server handled them:
\* a join of a room that has a free slot appends the joiner, a join of a full
\* room is answered 'full' and changes nothing, a leave removes the leaver
\* (and the room with its last participant), and no other event of another
\* room or connection changes the list.
C29_SerialJoinLeave ==
  [][ \A r \in RoomIds :
        LET before == ParticipantsOf(rooms, r)
            after == ParticipantsOf(rooms', r)
            s == ev'.socket
        IN /\ (ev'.name = "join" /\ ev'.roomId = r /\ r \in DOMAIN rooms) =>
                IF Len(before) >= maxRoomParticipants
                  THEN /\ after = before
                       /\ out' = <<[event |-> "full", payload |-> r, to |-> {s}]>>
                  ELSE /\ after = Append(before, s)
                       /\ Len(after) = 2 =>
                            \E i \in Emits(out', "joined") : out'[i].to = {s}
           /\ (ev'.name = "leave" /\ ev'.roomId = r /\ r \in DOMAIN rooms) =>
                /\ after = SelectSeq(before, LAMBDA id : id # s)
                /\ r \in DOMAIN rooms' <=> after # <<>>
           /\ ( /\ ev'.name # "disconnect"
                /\ ~(ev'.name \in {"join", "leave"} /\ ev'.roomId = r) )
                => after = before
    ]_vars

\* two connections joined a room of one: the first got 'joined', the second
\* is answered 'full', and the room holds exactly the two first
C29_Witness ==
  /\ ev.name = "join"
  /\ ev.roomId \in DOMAIN rooms
  /\ out = <<[event |-> "full", payload |-> ev.roomId, to |-> {ev.socket}]>>
  /\ Len(rooms[ev.roomId].participants) = 2
  /\ ~InSeq(ev.socket, rooms[ev.roomId].participants)
  /\ rooms[ev.roomId].participants[1] # rooms[ev.roomId].participants[2]

\* C30: a client that pressed Create answers 'user-joined' with exactly one
\* 'offer' tagged with the id of its room; a client that is not the creator
\* sends no offer on 'user-joined'.
C30_CreatorOffers ==
  [][ sent'.on = "user-joined" =>
        LET client == clients[sent'.client]
        IN IF client.isInitiator
             THEN client.roomId \in RoomIds =>
                    sent'.emits = <<[event |-> "offer", roomId |-> client.roomId,
                                     isCreator |-> Undefined]>>
             ELSE sent'.emits = <<>>
    ]_vars

\* ------------------------------------------------------------------ joins, relays, notifications
JoinReplies == {"created", "joined", "full", "no-room"}

\* C31: with capacity 2, a join with a valid room id sends exactly one of
\* 'created', 'joined', 'full', 'no-room' to the joiner: 'created' exactly
\* when the joiner becomes the only participant, 'joined' exactly when it
\* becomes the second one, 'full' when the room holds two, 'no-room' when the
\* room is absent and the joiner is no creator.
C31_OneJoinReply ==
  [][ (ev'.name = "join" /\ ValidRoomId(ev'.roomId)) =>
        LET r == ev'.roomId
            s == ev'.socket
            before == ParticipantsOf(rooms, r)
            after == ParticipantsOf(rooms', r)
            replies == {i \in 1..Len(out') :
                          out'[i].event \in JoinReplies /\ s \in out'[i].to}
        IN /\ Cardinality(replies) = 1
           /\ \A i \in replies :
                /\ out'[i].to = {s}
                /\ out'[i].payload = r
                /\ out'[i].event = "created" <=> (before = <<>> /\ after = <<s>>)
                /\ out'[i].event = "joined" <=>
                     (Len(before) = 1 /\ after = Append(before, s))
                /\ out'[i].event = "full" <=>
                     (Len(before) = maxRoomParticipants /\ after = before)
                /\ out'[i].event = "no-room" <=>
                     (r \notin DOMAIN rooms /\ ~Truthy(ev'.creator) /\ rooms' = rooms)
    ]_vars

\* 'created' answered to the first join of a room that createRoom registered
C31_Witness ==
  /\ ev.name = "join"
  /\ ev.roomId \in DOMAIN rooms
  /\ rooms[ev.roomId].lang # Undefined
  /\ rooms[ev.roomId].participants = <<ev.socket>>
  /\ \E i \in 1..Len(out) :
       out[i] = [event |-> "created", payload |-> ev.roomId, to |-> {ev.socket}]

\* C32: dictionary delete removes exactly the entry at the requested position
\* when the index is an integer with 0 <= index < table length; for every
\* other index (negative, too large, not a number) it answers not-found and
\* leaves the table and the persisted file unchanged.
C32_DeleteExactOrNotFound ==
  [][ dictAnswer'.op = "delete" =>
        LET index == dictAnswer'.index
        IN IF ~index.nan /\ 0 <= index.n /\ index.n < Len(excludedWords)
             THEN excludedWords' =
                    [i \in 1..(Len(excludedWords) - 1) |->
                       IF i <= index.n THEN excludedWords[i] ELSE excludedWords[i + 1]]
             ELSE /\ dictAnswer'.status = 404
                  /\ UNCHANGED <<excludedWords, excludedWordsFile>>
    ]_vars

\* C33: no connection identity appears more than once in a room's participant
\* list, also when a participant sends join for its room again.
C33_NoDuplicateParticipants ==
  \A r \in DOMAIN rooms :
    \A i, j \in 1..Len(rooms[r].participants) :
      i # j => rooms[r].participants[i] # rooms[r].participants[j]

\* C34: an offer, answer, ice-candidate or transcript naming a room and sent
\* by a connection that is not a participant of that room is delivered to no
\* one.
C34_OnlyMembersRelay ==
  [][ ( /\ ev'.name \in SignalNames \cup {"transcript"}
        /\ ~InSeq(ev'.socket, ParticipantsOf(rooms, ev'.roomId)) )
      => \A i \in 1..Len(out') : out'[i].to = {}
    ]_vars

\* C35: 'user-disconnected' is delivered only to connections that are
\* participants of the room that is left: a connection that left the room by
\* a leave event receives none for later departures.
C35_PeerLeftToParticipantsOnly ==
  [][ \A i \in Emits(out', "user-disconnected") :
        \A c \in out'[i].to :
          \E r \in (IF ev'.name = "leave" THEN {ev'.roomId} ELSE DOMAIN rooms) :
            InSeq(c, ParticipantsOf(rooms, r))
    ]_vars

\* C36: a non-empty transcript buffer is removed from memory only in a step
\* that wrote its content to storage, also when its room id has no room.
C36_RemovedOnlyWhenFlushed ==
  [][ \A r \in DOMAIN transcripts :
        (transcripts[r] # <<>> /\ r \notin DOMAIN transcripts')
          => \E i \in 1..Len(saved') :
               /\ saved'[i].roomId = r
               /\ Len(saved'[i].content) = Len(transcripts[r])
    ]_vars

\* C40: every identity in a participant list belongs to a connection that is
\* still connected; after a disconnect the connection is in no participant
\* list and every room of which it was the last participant is removed.
C40_ParticipantsAreConnected ==
  /\ [](\A r \in DOMAIN rooms :
          \A i \in 1..Len(rooms[r].participants) :
            rooms[r].participants[i] \in connected)
  /\ [][ ev'.name = "disconnect" =>
           /\ \A r \in DOMAIN rooms' : ~InSeq(ev'.socket, rooms'[r].participants)
           /\ \A r \in DOMAIN rooms :
                ( /\ rooms[r].participants # <<>>
                  /\ \A i \in 1..Len(rooms[r].participants) :
                       rooms[r].participants[i] = ev'.socket )
                => r \notin DOMAIN rooms'
       ]_vars

\* the last participant of a room disconnected while another connection is
\* live: the room is gone and its transcript was written
C40_Witness ==
  /\ ev.name = "disconnect"
  /\ ev.socket \notin connected
  /\ connected # {}
  /\ rooms = EmptyMap
  /\ Len(saved) = 1

\* ------------------------------------------------------------------ the health flag
\* C37: only the completion of a health probe changes the health flag: the
\* outcome of a /translate call leaves it unchanged, and while it is true a
\* valid translate request calls the backend's /translate at once.
C37_FlagOnlyByProbe ==
  [][ /\ \A q \in ReqIds :
           (requests[q].pc = "translate" /\ requests'[q].pc = "done")
             => pythonServiceHealthy' = pythonServiceHealthy
      /\ pythonServiceHealthy' # pythonServiceHealthy =>
           \/ requests' = requests
           \/ \E q \in ReqIds : requests[q].pc = "health" /\ requests'[q].pc # "health"
      /\ \A q \in ReqIds :
           ( /\ pythonServiceHealthy
             /\ requests[q].pc \in {"none", "done"}
             /\ requests'[q] # requests[q]
             /\ validateInput(requests'[q].body.text, maxTranslationLength).isValid )
           => /\ requests'[q].pc = "translate"
              /\ requests'[q].calls = <<"POST /translate">>
    ]_vars

\* a request that met the flag true is at the backend although the call of
\* another request was refused
C37_Witness ==
  /\ pythonServiceHealthy
  /\ \E q1, q2 \in ReqIds :
       /\ requests[q1].pc = "done"
       /\ requests[q1].reply.kind = "refused"
       /\ requests[q1].probe = ""
       /\ requests[q2].pc = "translate"
       /\ requests[q2].calls = <<"POST /translate">>

\* C38: if the backend is healthy from some point on, the health flag
\* eventually becomes true and stays true, the periodic probe being scheduled
\* fairly; and a valid request whose on-demand probe completes while the
\* backend is healthy is not rejected with 503 but goes on to the backend.
C38_GateRecovers ==
  /\ (<>[](backend = "up")) => <>[]pythonServiceHealthy
  /\ [][ \A q \in ReqIds :
           (requests[q].pc = "health" /\ requests'[q].pc # "health" /\ backend = "up")
             => /\ requests'[q].status # 503
                /\ requests'[q].pc = "translate"
                /\ pythonServiceHealthy'
       ]_vars

\* the on-demand probe of a request re-opened the gate and the request was
\* answered with a translation
C38_Witness ==
  /\ pythonServiceHealthy
  /\ backend = "up"
  /\ \E q \in ReqIds :
       /\ requests[q].probe = "loaded"
       /\ requests[q].calls = <<"GET /health", "POST /translate">>
       /\ requests[q].status = 200

\* ------------------------------------------------------------------ the client's room id
\* C39: on the client the current room id is changed only by a create or join
\* (and the server's answer to it) and by hangup: receiving an offer or
\* 'user-joined' and changing the language leave it unchanged, and a hangup
\* of a client that is in a room sends 'leave' for that room exactly once.
C39_RoomIdKept ==
  [][ LET c == sent'.client
      IN /\ (sent'.on \in {"offer", "user-joined", "language"}
              /\ clients[c].roomId \in RoomIds) =>
              clients'[c].roomId = clients[c].roomId
         /\ (sent'.on = "hangup" /\ clients[c].roomId \in RoomIds) =>
              sent'.emits = <<[event |-> "leave", roomId |-> clients[c].roomId,
                               isCreator |-> Undefined]>>
    ]_vars

====
